---- MODULE Spec2Model ----
(***************************************************************************)
(* The Zynk-to-C++ compiler of src/main.rs as a state machine: main() runs *)
(* Tokenizer::run over the bytes of the source text, then Parser::run over *)
(* the tokens, then Generator::generate over the statements.  A Rust panic *)
(* (a failed unwrap, a string slice off a char boundary) ends the process. *)
(*                                                                         *)
(* The text is a sequence of UTF-8 bytes.  An ASCII byte is written as the *)
(* one-character string of its character; a byte of a multi-byte character *)
(* is written by its hexadecimal value ("0xE2").                           *)
(***************************************************************************)
EXTENDS Integers, Sequences, FiniteSets

VARIABLES
    content,        \* main: the text read from the file (bytes)
    tok_index,      \* Tokenizer.index (a byte offset)
    buffer,         \* Tokenizer::run: the local String buffer
    tokens,         \* Tokenizer.tokens, borrowed by Parser.tokens
    parser_index,   \* Parser.index
    stmts,          \* Parser.stmts, borrowed by Generator.stmts
    errors,         \* the parse errors Parser::run has printed, in order
    gen_index,      \* Generator.index
    includes,       \* Generator::generate: the local String includes
    src,            \* Generator::generate: the local String src
    output,         \* what main prints as the compiler result
    panicked,       \* "none", or the panic that ended the process
    pc              \* the place main has reached

vars == <<content, tok_index, buffer, tokens, parser_index, stmts, errors,
          gen_index, includes, src, output, panicked, pc>>

(***************************************************************************)
(* Bounds of the checked instances.                                        *)
(***************************************************************************)
MaxLen == 3
MaxTokens == 4

(***************************************************************************)
(* Program constants.                                                      *)
(***************************************************************************)
I32Max == 2147483647

(***************************************************************************)
(* Characters.  Every character the tokenizer classifies is one ASCII      *)
(* byte: peek slices one byte, and a one-byte slice that lies on char      *)
(* boundaries is an ASCII character.                                       *)
(***************************************************************************)
Lower == {"a","b","c","d","e","f","g","h","i","j","k","l","m",
          "n","o","p","q","r","s","t","u","v","w","x","y","z"}
Upper == {"A","B","C","D","E","F","G","H","I","J","K","L","M",
          "N","O","P","Q","R","S","T","U","V","W","X","Y","Z"}
DigitChars == <<"0","1","2","3","4","5","6","7","8","9">>
Digits == {DigitChars[i] : i \in 1..10}

\* UTF-8 continuation bytes (10xxxxxx) and lead bytes of the characters used.
ContinuationBytes == {"0x82", "0xAC", "0xA9"}
LeadBytes == {"0xE2", "0xC3"}

IsAlphabetic(c) == c \in Lower \cup Upper
IsNumeric(c) == c \in Digits
IsAlphanumeric(c) == IsAlphabetic(c) \/ IsNumeric(c)

DigitVal(c) == (CHOOSE i \in 1..10 : DigitChars[i] = c) - 1

\* str::is_char_boundary at byte offset i (0-based).
IsCharBoundary(s, i) ==
    \/ i = 0
    \/ i = Len(s)
    \/ (i < Len(s) /\ s[i + 1] \notin ContinuationBytes)

\* Whether the slice &s[a..b] exists; Rust panics when it does not.
SliceOk(s, a, b) ==
    a <= b /\ b <= Len(s) /\ IsCharBoundary(s, a) /\ IsCharBoundary(s, b)

RECURSIVE Join(_)
\* The String holding the characters of a sequence of ASCII characters.
Join(s) == IF s = <<>> THEN "" ELSE Head(s) \o Join(Tail(s))

(***************************************************************************)
(* Values, tokens and statements.                                          *)
(***************************************************************************)
UString(s) == [kind |-> "String", val |-> s]
UInt(n) == [kind |-> "Int", val |-> n]
Tok(t) == [type |-> t]
UserTypeTok(u) == [type |-> "UserType", ut |-> u]
IsUserType(t) == t.type = "UserType"
IsUserString(t) == t.type = "UserType" /\ t.ut.kind = "String"
PrintStmt(user_types) == [type |-> "Print", user_types |-> user_types]
\* key and value are references into Parser.tokens: 0-based positions.
LetStmt(key, value) == [type |-> "Let", key |-> key, value |-> value]

(***************************************************************************)
(* Tokenizer.                                                              *)
(***************************************************************************)
\* Tokenizer::peek(None): "None" at the end, "Some" with the character
\* TokChar, "Panic" when the one-byte slice is off a char boundary.
TokPeek ==
    IF tok_index < Len(content)
    THEN IF SliceOk(content, tok_index, tok_index + 1) THEN "Some" ELSE "Panic"
    ELSE "None"
TokChar == content[tok_index + 1]

\* Tokenizer::accept: advances the cursor and reads the byte it passed.
TokAccept ==
    /\ SliceOk(content, tok_index, tok_index + 1)
    /\ tok_index' = tok_index + 1

\* Tokenizer::accept_to_buffer.
TokAcceptToBuffer ==
    /\ TokAccept
    /\ buffer' = Append(buffer, TokChar)

\* Keyword without the comparison with "to".
KeywordWithoutTo(buf) ==
    IF Join(buf) = "print" THEN Tok("Print")
    ELSE IF Join(buf) = "let" THEN Tok("Let")
    ELSE UserTypeTok(UString(Join(buf)))

\* The token pushed for an alphanumeric run (lines 62-70).
Keyword(buf) ==
    IF Join(buf) = "print" THEN Tok("Print")
    ELSE IF Join(buf) = "let" THEN Tok("Let")
    ELSE IF Join(buf) = "to" THEN Tok("To")
    ELSE UserTypeTok(UString(Join(buf)))

RECURSIVE ParseDigits(_, _)
\* i32::from_str on a string without sign: checked multiply and add, left to
\* right; -1 stands for Err (InvalidDigit, PosOverflow).
ParseDigits(buf, acc) ==
    IF buf = <<>> THEN acc
    ELSE IF Head(buf) \notin Digits THEN -1
    ELSE LET d == DigitVal(Head(buf)) IN
         IF acc > I32Max \div 10 THEN -1
         ELSE IF acc * 10 > I32Max - d THEN -1
         ELSE ParseDigits(Tail(buf), acc * 10 + d)
\* ParseI32 that saturates instead of failing.
ParseI32Saturating(buf) ==
    IF ParseDigits(buf, 0) < 0 THEN I32Max ELSE ParseDigits(buf, 0)

ParseI32(buf) == ParseDigits(buf, 0)

TokFrame == UNCHANGED <<content, parser_index, stmts, errors, gen_index,
                        includes, src, output>>

\* Line 55-56: an alphabetic character starts an identifier or keyword.
TokAlphabetic ==
    /\ pc = "Tokenizer.run"
    /\ TokPeek = "Some" /\ IsAlphabetic(TokChar)
    /\ TokAcceptToBuffer
    /\ pc' = "ident"
    /\ UNCHANGED <<tokens, panicked>> /\ TokFrame

\* Line 58-59: the run continues over letters and digits.
TokIdentAccept ==
    /\ pc = "ident"
    /\ TokPeek = "Some" /\ IsAlphanumeric(TokChar)
    /\ TokAcceptToBuffer
    /\ UNCHANGED <<tokens, panicked, pc>> /\ TokFrame

\* TokIdentPush without buffer.clear().
TokIdentPushNoClear ==
    /\ pc = "ident"
    /\ \/ TokPeek = "None"
       \/ TokPeek = "Some" /\ ~IsAlphanumeric(TokChar)
    /\ tokens' = Append(tokens, Keyword(buffer))
    /\ pc' = "Tokenizer.run"
    /\ UNCHANGED <<tok_index, buffer, panicked>> /\ TokFrame

\* Line 62-72: the run has ended; push its token and clear the buffer.
TokIdentPush ==
    /\ pc = "ident"
    /\ \/ TokPeek = "None"
       \/ TokPeek = "Some" /\ ~IsAlphanumeric(TokChar)
    /\ tokens' = Append(tokens, Keyword(buffer))
    /\ buffer' = <<>>
    /\ pc' = "Tokenizer.run"
    /\ UNCHANGED <<tok_index, panicked>> /\ TokFrame

\* Line 73-74: a digit starts an integer literal.
TokNumeric ==
    /\ pc = "Tokenizer.run"
    /\ TokPeek = "Some" /\ ~IsAlphabetic(TokChar) /\ IsNumeric(TokChar)
    /\ TokAcceptToBuffer
    /\ pc' = "number"
    /\ UNCHANGED <<tokens, panicked>> /\ TokFrame

\* Line 76-77.
TokNumberAccept ==
    /\ pc = "number"
    /\ TokPeek = "Some" /\ IsNumeric(TokChar)
    /\ TokAcceptToBuffer
    /\ UNCHANGED <<tokens, panicked, pc>> /\ TokFrame

\* Line 80-82: the digit run parses as an i32.
TokNumberPush ==
    /\ pc = "number"
    /\ \/ TokPeek = "None"
       \/ TokPeek = "Some" /\ ~IsNumeric(TokChar)
    /\ ParseI32(buffer) >= 0
    /\ tokens' = Append(tokens, UserTypeTok(UInt(ParseI32(buffer))))
    /\ buffer' = <<>>
    /\ pc' = "Tokenizer.run"
    /\ UNCHANGED <<tok_index, panicked>> /\ TokFrame

\* Line 80: buffer.parse() is Err and unwrap panics.
TokNumberPanic ==
    /\ pc = "number"
    /\ \/ TokPeek = "None"
       \/ TokPeek = "Some" /\ ~IsNumeric(TokChar)
    /\ ParseI32(buffer) < 0
    /\ panicked' = "ParseIntError"
    /\ pc' = "panic"
    /\ UNCHANGED <<tok_index, buffer, tokens>> /\ TokFrame

\* The token of a punctuation character (lines 83-94).
SymbolTok(c) ==
    IF c = "(" THEN Tok("OpenParen")
    ELSE IF c = ")" THEN Tok("CloseParen")
    ELSE Tok("Comma")

\* Line 83-94: '(' , ')' and ','.
TokSymbol ==
    /\ pc = "Tokenizer.run"
    /\ TokPeek = "Some" /\ ~IsAlphabetic(TokChar) /\ ~IsNumeric(TokChar)
    /\ TokChar \in {"(", ")", ","}
    /\ TokAccept
    /\ tokens' = Append(tokens, SymbolTok(TokChar))
    /\ UNCHANGED <<buffer, panicked, pc>> /\ TokFrame

\* Line 95-97: any other character is consumed and dropped.
TokDiscard ==
    /\ pc = "Tokenizer.run"
    /\ TokPeek = "Some" /\ ~IsAlphabetic(TokChar) /\ ~IsNumeric(TokChar)
    /\ TokChar \notin {"(", ")", ","}
    /\ TokAccept
    /\ UNCHANGED <<buffer, tokens, panicked, pc>> /\ TokFrame

\* Line 105: the one-byte slice of peek is off a char boundary.
TokSlicePanic ==
    /\ pc \in {"Tokenizer.run", "ident", "number"}
    /\ TokPeek = "Panic"
    /\ panicked' = "byte index is not a char boundary"
    /\ pc' = "panic"
    /\ UNCHANGED <<tok_index, buffer, tokens>> /\ TokFrame

\* Line 54 fails, run returns, and main builds the Parser (line 352).
TokRunReturn ==
    /\ pc = "Tokenizer.run"
    /\ TokPeek = "None"
    /\ parser_index' = 0
    /\ stmts' = <<>>
    /\ pc' = "Parser.run"
    /\ UNCHANGED <<content, tok_index, buffer, tokens, errors, gen_index,
                   includes, src, output, panicked>>

TokNext ==
    \/ TokAlphabetic \/ TokIdentAccept \/ TokIdentPush
    \/ TokNumeric \/ TokNumberAccept \/ TokNumberPush \/ TokNumberPanic
    \/ TokSymbol \/ TokDiscard \/ TokSlicePanic \/ TokRunReturn

(***************************************************************************)
(* Parser.                                                                 *)
(***************************************************************************)
\* Parser::peek(None).is_some()
ParserSome(toks, i) == i < Len(toks)
\* Parser::peek(None).unwrap(): the token at the cursor.
ParserTok(toks, i) == toks[i + 1]

ErrOpenParen == "Expected '(' to start print statement"
ErrCloseParen == "Expected ')' to end print statement"
ErrName == "Expected variable name after 'let'"
ErrTo == "Expected 'to' after variable name"
ErrValue == "Expected value after 'to'"

\* What one parse_stmt call does: the cursor it leaves, the statements it
\* pushes (none or one) and the error it returns (none or one).
StmtResult(i, push, err) == [index |-> i, push |-> push, err |-> err]

\* PrintArgs that stops after the first value.
PrintArgsFirstOnly(toks, i, user_types) ==
    IF ParserSome(toks, i) /\ IsUserType(ParserTok(toks, i))
    THEN [index |-> i + 1,
          user_types |-> Append(user_types, ParserTok(toks, i).ut)]
    ELSE [index |-> i, user_types |-> user_types]

RECURSIVE PrintArgs(_, _, _)
\* Lines 138-154: the loop over the values of a print statement, entered with
\* the cursor at i and the values user_types collected so far.
PrintArgs(toks, i, user_types) ==
    IF ParserSome(toks, i) /\ IsUserType(ParserTok(toks, i))
    THEN LET pushed == Append(user_types, ParserTok(toks, i).ut) IN
         IF ParserSome(toks, i + 1) /\ ParserTok(toks, i + 1) = Tok("Comma")
         THEN PrintArgs(toks, i + 2, pushed)
         ELSE [index |-> i + 1, user_types |-> pushed]
    ELSE [index |-> i, user_types |-> user_types]

\* ParsePrintStmt that accepts the token after print before it checks it.
ParsePrintStmtAcceptsFirst(toks, i) ==
    IF ParserSome(toks, i + 1) /\ ParserTok(toks, i + 1) = Tok("OpenParen")
    THEN LET args == PrintArgs(toks, i + 2, <<>>) IN
         IF ParserSome(toks, args.index)
            /\ ParserTok(toks, args.index) = Tok("CloseParen")
         THEN StmtResult(args.index + 1, <<PrintStmt(args.user_types)>>, <<>>)
         ELSE StmtResult(args.index, <<>>, <<ErrCloseParen>>)
    ELSE StmtResult(i + 2, <<>>, <<ErrOpenParen>>)

\* ParsePrintStmt that pushes one Print statement for each value.
ParsePrintStmtPerValue(toks, i) ==
    IF ParserSome(toks, i + 1) /\ ParserTok(toks, i + 1) = Tok("OpenParen")
    THEN LET args == PrintArgs(toks, i + 2, <<>>) IN
         IF ParserSome(toks, args.index)
            /\ ParserTok(toks, args.index) = Tok("CloseParen")
         THEN StmtResult(args.index + 1,
                         [k \in 1..Len(args.user_types) |->
                             PrintStmt(<<args.user_types[k]>>)],
                         <<>>)
         ELSE StmtResult(args.index, <<>>, <<ErrCloseParen>>)
    ELSE StmtResult(i + 1, <<>>, <<ErrOpenParen>>)

\* Lines 130-167: parse_stmt with the print keyword at the cursor i.
ParsePrintStmt(toks, i) ==
    IF ParserSome(toks, i + 1) /\ ParserTok(toks, i + 1) = Tok("OpenParen")
    THEN LET args == PrintArgs(toks, i + 2, <<>>) IN
         IF ParserSome(toks, args.index)
            /\ ParserTok(toks, args.index) = Tok("CloseParen")
         THEN StmtResult(args.index + 1, <<PrintStmt(args.user_types)>>, <<>>)
         ELSE StmtResult(args.index, <<>>, <<ErrCloseParen>>)
    ELSE StmtResult(i + 1, <<>>, <<ErrOpenParen>>)

\* ParseLetStmt that takes any literal as the key.
ParseLetStmtAnyKey(toks, i) ==
    IF ParserSome(toks, i + 1) /\ IsUserType(ParserTok(toks, i + 1))
    THEN IF ParserSome(toks, i + 2) /\ ParserTok(toks, i + 2) = Tok("To")
         THEN IF ParserSome(toks, i + 3) /\ IsUserType(ParserTok(toks, i + 3))
              THEN StmtResult(i + 4, <<LetStmt(i + 1, i + 3)>>, <<>>)
              ELSE StmtResult(i + 3, <<>>, <<ErrValue>>)
         ELSE StmtResult(i + 2, <<>>, <<ErrTo>>)
    ELSE StmtResult(i + 1, <<>>, <<ErrName>>)

\* ParseLetStmt that takes the value reference before it accepts 'to'.
ParseLetStmtEarlyValue(toks, i) ==
    IF ParserSome(toks, i + 1) /\ IsUserString(ParserTok(toks, i + 1))
    THEN IF ParserSome(toks, i + 2) /\ ParserTok(toks, i + 2) = Tok("To")
         THEN IF ParserSome(toks, i + 3) /\ IsUserType(ParserTok(toks, i + 3))
              THEN StmtResult(i + 4, <<LetStmt(i + 1, i + 2)>>, <<>>)
              ELSE StmtResult(i + 3, <<>>, <<ErrValue>>)
         ELSE StmtResult(i + 2, <<>>, <<ErrTo>>)
    ELSE StmtResult(i + 1, <<>>, <<ErrName>>)

\* ParseLetStmt that accepts the token after the key before it checks it.
ParseLetStmtAcceptsFirst(toks, i) ==
    IF ParserSome(toks, i + 1) /\ IsUserString(ParserTok(toks, i + 1))
    THEN IF ParserSome(toks, i + 2) /\ ParserTok(toks, i + 2) = Tok("To")
         THEN IF ParserSome(toks, i + 3) /\ IsUserType(ParserTok(toks, i + 3))
              THEN StmtResult(i + 4, <<LetStmt(i + 1, i + 3)>>, <<>>)
              ELSE StmtResult(i + 3, <<>>, <<ErrValue>>)
         ELSE StmtResult(IF ParserSome(toks, i + 2) THEN i + 3 ELSE i + 2,
                         <<>>, <<ErrTo>>)
    ELSE StmtResult(i + 1, <<>>, <<ErrName>>)

\* Lines 168-192: parse_stmt with the let keyword at the cursor i.
ParseLetStmt(toks, i) ==
    IF ParserSome(toks, i + 1) /\ IsUserString(ParserTok(toks, i + 1))
    THEN IF ParserSome(toks, i + 2) /\ ParserTok(toks, i + 2) = Tok("To")
         THEN IF ParserSome(toks, i + 3) /\ IsUserType(ParserTok(toks, i + 3))
              THEN StmtResult(i + 4, <<LetStmt(i + 1, i + 3)>>, <<>>)
              ELSE StmtResult(i + 3, <<>>, <<ErrValue>>)
         ELSE StmtResult(i + 2, <<>>, <<ErrTo>>)
    ELSE StmtResult(i + 1, <<>>, <<ErrName>>)

\* ParseSkipStmt that reports the token it skips.
ParseSkipStmtReports(toks, i) == StmtResult(i + 1, <<>>, <<"Unexpected token">>)

\* ParseSkipStmt without self.accept().
ParseSkipStmtNoAccept(toks, i) == StmtResult(i, <<>>, <<>>)

\* Lines 193-195: parse_stmt with any other token at the cursor i.
ParseSkipStmt(toks, i) == StmtResult(i + 1, <<>>, <<>>)

\* Lines 129-198: the positions at which a parse_stmt call entered with the
\* cursor at i unwraps peek(None) or indexes tokens.  The unwrap of line 130
\* is unconditional; every later one follows peek(None).is_some() under &&.
ParseStmtReads(toks, i) ==
    LET Guarded(a, b) == {j \in a..b : ParserSome(toks, j)} IN
    IF i < Len(toks) /\ ParserTok(toks, i) = Tok("Print")
    THEN {i} \cup Guarded(i + 1, i + 1)
             \cup (IF ParserSome(toks, i + 1)
                      /\ ParserTok(toks, i + 1) = Tok("OpenParen")
                   THEN Guarded(i + 2, PrintArgs(toks, i + 2, <<>>).index)
                   ELSE {})
    ELSE IF i < Len(toks) /\ ParserTok(toks, i) = Tok("Let")
    THEN {i} \cup Guarded(i + 1, i + 1)
             \cup (IF ParserSome(toks, i + 1)
                      /\ IsUserString(ParserTok(toks, i + 1))
                   THEN Guarded(i + 2, i + 2)
                            \cup (IF ParserSome(toks, i + 2)
                                     /\ ParserTok(toks, i + 2) = Tok("To")
                                  THEN Guarded(i + 3, i + 3)
                                  ELSE {})
                   ELSE {})
    ELSE {i}

\* Lines 129-198.
ParseStmtResult(toks, i) ==
    IF ParserTok(toks, i) = Tok("Print") THEN ParsePrintStmt(toks, i)
    ELSE IF ParserTok(toks, i) = Tok("Let") THEN ParseLetStmt(toks, i)
    ELSE ParseSkipStmt(toks, i)

\* Lines 201-205: one turn of the loop of Parser::run: a parse_stmt call, and
\* the error it returns printed.
ParseStmt ==
    /\ pc = "Parser.run"
    /\ ParserSome(tokens, parser_index)
    /\ LET r == ParseStmtResult(tokens, parser_index) IN
         /\ parser_index' = r.index
         /\ stmts' = stmts \o r.push
         /\ errors' = errors \o r.err
    /\ UNCHANGED <<content, tok_index, buffer, tokens, gen_index, includes,
                   src, output, panicked, pc>>

(***************************************************************************)
(* Generator.  includes is kept as a sequence of characters, so that       *)
(* String::contains is a substring search; src is a String.                *)
(***************************************************************************)
HashInclude == <<"#", "i", "n", "c", "l", "u", "d", "e", " ">>
Iostream == <<"<", "i", "o", "s", "t", "r", "e", "a", "m", ">">>
StringHeader == <<"<", "s", "t", "r", "i", "n", "g", ">">>

\* str::contains.
Contains(hay, needle) ==
    \E k \in 0..(Len(hay) - Len(needle)) :
        SubSeq(hay, k + 1, k + Len(needle)) = needle

\* include without the contains test.
IncludeAlways(incs, inc) == incs \o HashInclude \o inc \o <<"\n">>

\* fn include (lines 232-240).
Include(incs, inc) ==
    IF ~Contains(incs, inc) THEN incs \o HashInclude \o inc \o <<"\n">>
    ELSE incs

RECURSIVE IntToString(_)
\* i32::to_string of a value that is not negative.
IntToString(n) ==
    IF n < 10 THEN DigitChars[n + 1]
    ELSE IntToString(n \div 10) \o DigitChars[(n % 10) + 1]

RECURSIVE PrintValuesNoChainAfterText(_)
\* PrintValues without the "<<" of line 264 after a String value.
PrintValuesNoChainAfterText(user_types) ==
    IF user_types = <<>> THEN ""
    ELSE LET u == Head(user_types) IN
         (IF u.kind = "Int" THEN IntToString(u.val) \o "<<" ELSE u.val)
             \o PrintValuesNoChainAfterText(Tail(user_types))

RECURSIVE PrintValues(_)
\* Lines 256-267: each value followed by "<<".
PrintValues(user_types) ==
    IF user_types = <<>> THEN ""
    ELSE LET u == Head(user_types) IN
         (IF u.kind = "Int" THEN IntToString(u.val) ELSE u.val) \o "<<"
             \o PrintValues(Tail(user_types))

\* LetIncludes that includes <string> whatever the type of the value.
LetIncludesAnyValue(incs, key, value) ==
    IF IsUserString(key) /\ IsUserType(value) THEN Include(incs, StringHeader)
    ELSE incs

\* Lines 271-304: what a Let statement adds to includes and src.
LetIncludes(incs, key, value) ==
    IF IsUserString(key) /\ IsUserString(value) THEN Include(incs, StringHeader)
    ELSE incs
LetSrc(key, value) ==
    IF IsUserString(key) /\ IsUserType(value)
    THEN IF value.ut.kind = "String"
         THEN "std::string " \o key.ut.val \o "=" \o value.ut.val \o ";\n"
         ELSE "int " \o key.ut.val \o "=" \o IntToString(value.ut.val) \o ";\n"
    ELSE ""

\* ParserRunReturn that returns Err after a reported error, so that main takes
\* its Err arm and generates nothing.
ParserRunReturnErr ==
    /\ pc = "Parser.run"
    /\ ~ParserSome(tokens, parser_index)
    /\ IF errors = <<>>
       THEN /\ gen_index' = 0
            /\ includes' = <<>>
            /\ src' = "int main() {\n"
            /\ pc' = "Generator.generate"
       ELSE /\ pc' = "exit"
            /\ UNCHANGED <<gen_index, includes, src>>
    /\ UNCHANGED <<content, tok_index, buffer, tokens, parser_index, stmts,
                   errors, output, panicked>>

\* Parser::run returns Ok (line 208) and main starts Generator::generate
\* (lines 363, 244-246).
ParserRunReturn ==
    /\ pc = "Parser.run"
    /\ ~ParserSome(tokens, parser_index)
    /\ gen_index' = 0
    /\ includes' = <<>>
    /\ src' = "int main() {\n"
    /\ pc' = "Generator.generate"
    /\ UNCHANGED <<content, tok_index, buffer, tokens, parser_index, stmts,
                   errors, output, panicked>>

GenFrame == UNCHANGED <<content, tok_index, buffer, tokens, parser_index,
                        stmts, errors, output, panicked, pc>>

\* Lines 252-270 and 307.
GenPrint ==
    /\ pc = "Generator.generate"
    /\ gen_index < Len(stmts)
    /\ stmts[gen_index + 1].type = "Print"
    /\ includes' = Include(includes, Iostream)
    /\ src' = src \o "std::cout<<"
                  \o PrintValues(stmts[gen_index + 1].user_types)
                  \o "std::endl;\n"
    /\ gen_index' = gen_index + 1
    /\ GenFrame

\* Lines 271-304 and 307.
GenLet ==
    /\ pc = "Generator.generate"
    /\ gen_index < Len(stmts)
    /\ stmts[gen_index + 1].type = "Let"
    /\ LET key == tokens[stmts[gen_index + 1].key + 1]
           value == tokens[stmts[gen_index + 1].value + 1]
       IN /\ includes' = LetIncludes(includes, key, value)
          /\ src' = src \o LetSrc(key, value)
    /\ gen_index' = gen_index + 1
    /\ GenFrame

\* GenReturn whose format! has no newline between includes and src.
GenReturnNoNewline ==
    /\ pc = "Generator.generate"
    /\ ~(gen_index < Len(stmts))
    /\ src' = src \o "}"
    /\ output' = Join(includes) \o src'
    /\ pc' = "exit"
    /\ UNCHANGED <<content, tok_index, buffer, tokens, parser_index, stmts,
                   errors, gen_index, includes, panicked>>

\* Lines 310-312: generate returns and main prints the result.
GenReturn ==
    /\ pc = "Generator.generate"
    /\ ~(gen_index < Len(stmts))
    /\ src' = src \o "}"
    /\ output' = Join(includes) \o "\n" \o src'
    /\ pc' = "exit"
    /\ UNCHANGED <<content, tok_index, buffer, tokens, parser_index, stmts,
                   errors, gen_index, includes, panicked>>

ParserNext == ParseStmt \/ ParserRunReturn \/ GenPrint \/ GenLet \/ GenReturn

(***************************************************************************)
(* The texts and token sequences of the checked instances.                 *)
(***************************************************************************)
\* Characters as the bytes of their UTF-8 encoding; the last one is U+20AC.
Alphabet ==
    {<<"t">>, <<"o">>, <<"x">>, <<"1">>, <<"(">>, <<")">>, <<",">>, <<" ">>,
     <<"!">>, <<"0xE2", "0x82", "0xAC">>}

RECURSIVE TextsOfLen(_)
TextsOfLen(n) ==
    IF n = 0 THEN {<<>>}
    ELSE {c \o t : c \in Alphabet, t \in TextsOfLen(n - 1)}
ShortTexts == UNION {TextsOfLen(n) : n \in 0..MaxLen}

\* Longer texts: the examples of the specification and the ends of the i32
\* range.
SampleTexts ==
    {
      <<"p", "r", "i", "n", "t", "(", "1", ",", "2", ")">>,
      <<"p", "r", "i", "n", "t", "1">>,
      <<"1", "x">>,
      <<"p", "r", "!", "i", "n", "t">>,
      <<"2", "1", "4", "7", "4", "8", "3", "6", "4", "7">>,
      <<"2", "1", "4", "7", "4", "8", "3", "6", "4", "8">>,
      <<"0", "0", "0", "0", "0", "0", "0", "0", "1", "2">>,
      <<"p", "r", "i", "n", "t", "(", ")">>,
      <<"l", "e", "t", " ", "x", " ", "t", "o", " ", "5">>,
      <<"l", "e", "t", " ", "5", " ", "t", "o", " ", "x">>,
      <<"p", "r", "i", "n", "t", "(", "1", ",", ")">>,
      <<"l", "e", "t", " ", "x", " ", "p", "r", "i", "n", "t", "(", ")">>,
      <<"p", "r", "i", "n", "t", "(", "3", ",", "h", "i", ")">>,
      <<"l", "e", "t", " ", "s", " ", "t", "o", " ", "h", "i">>,
      <<"c", "a", "f", "0xC3", "0xA9">>,
      <<"a", "0xE2", "0x82", "0xAC">>
    }

\* The tokens of the checked token sequences, each with a lexeme of it.
Lexemes ==
    {<<Tok("Print"), <<"p", "r", "i", "n", "t">>>>,
     <<Tok("Let"), <<"l", "e", "t">>>>,
     <<Tok("To"), <<"t", "o">>>>,
     <<Tok("OpenParen"), <<"(">>>>,
     <<Tok("CloseParen"), <<")">>>>,
     <<Tok("Comma"), <<",">>>>,
     <<UserTypeTok(UString("x")), <<"x">>>>,
     <<UserTypeTok(UInt(5)), <<"5">>>>}
TokenAlphabet == {l[1] : l \in Lexemes}

\* Further literals of the longer token sequences.
T3 == UserTypeTok(UInt(3))
T120 == UserTypeTok(UInt(120))
THi == UserTypeTok(UString("hi"))
SampleLexemes ==
    {<<T3, <<"3">>>>, <<T120, <<"1", "2", "0">>>>, <<THi, <<"h", "i">>>>}
Lexeme(t) == (CHOOSE l \in Lexemes \cup SampleLexemes : l[1] = t)[2]

RECURSIVE Render(_)
\* A text whose tokens are toks: the lexemes, each followed by a space.
Render(toks) ==
    IF toks = <<>> THEN <<>>
    ELSE Lexeme(Head(toks)) \o <<" ">> \o Render(Tail(toks))

ShortTokenSeqs == UNION {[1..n -> TokenAlphabet] : n \in 0..MaxTokens}

TPrint == Tok("Print")
TLet == Tok("Let")
TTo == Tok("To")
TOpen == Tok("OpenParen")
TClose == Tok("CloseParen")
TComma == Tok("Comma")
TX == UserTypeTok(UString("x"))
T5 == UserTypeTok(UInt(5))

\* Longer token sequences: print statements of two and three values, a
\* trailing comma, statements that follow a failed attempt, and programs of
\* two and three statements.
SampleTokenSeqs ==
    {<<TPrint, TOpen, T5, TComma, TX, TClose>>,
     <<TPrint, TOpen, T5, TComma, TX, TComma, T5, TClose>>,
     <<TPrint, TOpen, TX, TComma, TClose>>,
     <<TPrint, TOpen, T5, TComma, TX, TComma, TClose>>,
     <<TPrint, TOpen, T5, TX, TClose>>,
     <<TPrint, TOpen, T5, TComma, TComma, TX, TClose>>,
     <<TPrint, TOpen, T5, TComma, TLet, TX, TTo, T5>>,
     <<TLet, TX, TPrint, TOpen, TClose>>,
     <<TLet, TX, TTo, TLet, TX, TTo, T5>>,
     <<TLet, TX, TTo, T5, TPrint, TOpen, TX, TClose>>,
     <<TPrint, TPrint, TOpen, TClose, TLet, TX, TTo, TX>>,
     <<TPrint, TOpen, T3, TComma, THi, TClose>>,
     <<TPrint, TOpen, TClose, TPrint, TOpen, TClose>>,
     <<TPrint, TOpen, TX, TClose, TPrint, TOpen, T5, TClose,
       TPrint, TOpen, TClose>>,
     <<TLet, TX, TTo, TX, TPrint, TOpen, TClose>>,
     <<TLet, TX, TTo, THi, TLet, THi, TTo, T120>>,
     <<TLet, TX, TTo, TX, TLet, TX, TTo, TX>>,
     <<TLet, TX, TTo, T5, TLet, TX, TTo, TX>>,
     <<TPrint, TOpen, T120, TClose, TLet, THi, TTo, TX,
       TPrint, TOpen, TClose>>,
     <<TLet, TX, TTo>>,
     <<TPrint, TOpen, T5, TComma>>}

(***************************************************************************)
(* The process from its start (main, line 349), and from the construction  *)
(* of the Parser (line 352) over the tokens of a text.                     *)
(***************************************************************************)
Fresh ==
    /\ buffer = <<>>
    /\ parser_index = 0
    /\ stmts = <<>>
    /\ errors = <<>>
    /\ gen_index = 0
    /\ includes = <<>>
    /\ src = ""
    /\ output = ""
    /\ panicked = "none"

Init ==
    /\ content \in ShortTexts \cup SampleTexts
    /\ tok_index = 0
    /\ tokens = <<>>
    /\ pc = "Tokenizer.run"
    /\ Fresh

ParserInit ==
    /\ tokens \in ShortTokenSeqs \cup SampleTokenSeqs
    /\ content = Render(tokens)
    /\ tok_index = Len(content)
    /\ pc = "Parser.run"
    /\ Fresh

Next == TokNext \/ ParserNext

Spec == Init /\ [][Next]_vars

SpecParser == ParserInit /\ [][ParserNext]_vars

(***************************************************************************)
(* Reference definitions for the properties of the tokenizer: the token    *)
(* sequence of a text by the lexical rules, computed from the text alone.  *)
(***************************************************************************)
Letters == Lower \cup Upper
AfterTokenizer == {"Parser.run", "Generator.generate", "exit"}
TokDone == pc \in AfterTokenizer

\* The end of the maximal run of characters of the set S that starts at s[i].
RunEnd(s, i, S) ==
    CHOOSE j \in i..Len(s) :
        /\ \A k \in i..j : s[k] \in S
        /\ j = Len(s) \/ s[j + 1] \notin S

\* The token of a whole run of letters and digits.
WordToken(run) ==
    IF run = <<"p", "r", "i", "n", "t">> THEN Tok("Print")
    ELSE IF run = <<"l", "e", "t">> THEN Tok("Let")
    ELSE IF run = <<"t", "o">> THEN Tok("To")
    ELSE UserTypeTok(UString(Join(run)))

RECURSIVE StripZeros(_)
StripZeros(run) ==
    IF Len(run) > 1 /\ Head(run) = "0" THEN StripZeros(Tail(run)) ELSE run

RECURSIVE DigitsLeq(_, _)
\* Of two digit strings of one length: the first is at most the second.
DigitsLeq(a, b) ==
    IF a = <<>> THEN TRUE
    ELSE IF DigitVal(Head(a)) # DigitVal(Head(b))
         THEN DigitVal(Head(a)) < DigitVal(Head(b))
         ELSE DigitsLeq(Tail(a), Tail(b))

\* The decimal value of the digit run is at most 2^31 - 1.
FitsI32(run) ==
    LET r == StripZeros(run)
        top == <<"2", "1", "4", "7", "4", "8", "3", "6", "4", "7">>
    IN Len(r) < Len(top) \/ (Len(r) = Len(top) /\ DigitsLeq(r, top))

RECURSIVE DecimalValue(_)
\* The decimal value of a digit run that fits.
DecimalValue(run) ==
    IF run = <<>> THEN 0
    ELSE 10 * DecimalValue(SubSeq(run, 1, Len(run) - 1))
            + DigitVal(run[Len(run)])

RECURSIVE RefLexFrom(_, _)
RefLexFrom(s, i) ==
    IF i > Len(s) THEN <<>>
    ELSE IF s[i] \in Letters
    THEN LET j == RunEnd(s, i, Letters \cup Digits) IN
         <<WordToken(SubSeq(s, i, j))>> \o RefLexFrom(s, j + 1)
    ELSE IF s[i] \in Digits
    THEN LET j == RunEnd(s, i, Digits) IN
         <<UserTypeTok(UInt(DecimalValue(SubSeq(s, i, j))))>>
             \o RefLexFrom(s, j + 1)
    ELSE IF s[i] = "(" THEN <<Tok("OpenParen")>> \o RefLexFrom(s, i + 1)
    ELSE IF s[i] = ")" THEN <<Tok("CloseParen")>> \o RefLexFrom(s, i + 1)
    ELSE IF s[i] = "," THEN <<Tok("Comma")>> \o RefLexFrom(s, i + 1)
    ELSE RefLexFrom(s, i + 1)
RefLex(s) == RefLexFrom(s, 1)

\* C1: the tokens pushed so far are, whenever the tokenizer stands between
\* two lexemes and once it has returned, exactly the tokens the lexical rules
\* give for the text consumed so far, in source order: a letter-started run
\* of letters and digits is Print, Let or To when the whole run is "print",
\* "let" or "to" and one Text otherwise, a digit run is one Integer, the
\* three punctuation characters are their tokens and any other character
\* gives nothing.  "print(1,2)", "print1" and "1x" give the tokens stated.
C1_TokensFollowRules ==
    /\ pc \in {"Tokenizer.run"} \cup AfterTokenizer
          => tokens = RefLex(SubSeq(content, 1, tok_index))
    /\ TokDone => tokens = RefLex(content)
    /\ TokDone /\ content = <<"p","r","i","n","t","(","1",",","2",")">>
          => tokens = <<Tok("Print"), Tok("OpenParen"), UserTypeTok(UInt(1)),
                        Tok("Comma"), UserTypeTok(UInt(2)), Tok("CloseParen")>>
    /\ TokDone /\ content = <<"p","r","i","n","t","1">>
          => tokens = <<UserTypeTok(UString("print1"))>>
    /\ TokDone /\ content = <<"1","x">>
          => tokens = <<UserTypeTok(UInt(1)), UserTypeTok(UString("x"))>>

C1_Witness ==
    /\ TokDone
    /\ content = <<"p","r","i","n","t","(","1",",","2",")">>
    /\ tokens = <<Tok("Print"), Tok("OpenParen"), UserTypeTok(UInt(1)),
                  Tok("Comma"), UserTypeTok(UInt(2)), Tok("CloseParen")>>

\* A one-byte character that no lexical rule matches.
Unrecognized(c) ==
    c \notin Letters \cup Digits \cup {"(", ")", ","}
             \cup ContinuationBytes \cup LeadBytes

\* s[k] is an unrecognized character with a letter on each side.
DropInside(s, k) ==
    /\ 1 < k /\ k < Len(s)
    /\ s[k - 1] \in Letters /\ Unrecognized(s[k]) /\ s[k + 1] \in Letters

Remove(s, k) == SubSeq(s, 1, k - 1) \o SubSeq(s, k + 1, Len(s))

\* C2 as stated: the letters on both sides of a dropped character end up in
\* one token, so that the tokens of the text are those of the text without
\* the dropped character.
C2_RunNotSplit ==
    TokDone =>
        \A k \in 1..Len(content) :
            (DropInside(content, k) /\ content[k] # " ")
            => tokens = RefLex(Remove(content, k))

\* C2 as amended: an unrecognized one-byte character is consumed without a
\* failure and without a token, and it ends the run of letters before it:
\* the tokens of the text are the tokens of what precedes the character
\* followed by the tokens of what follows it, so the letters on its two
\* sides are in two separate tokens.
C2_DropSplitsRun ==
    [][/\ (/\ pc = "Tokenizer.run"
           /\ tok_index < Len(content)
           /\ Unrecognized(content[tok_index + 1]))
          => /\ tok_index' = tok_index + 1
             /\ tokens' = tokens
             /\ pc' = "Tokenizer.run"
             /\ panicked' = "none"
       /\ (pc' \in AfterTokenizer)
          => \A k \in 1..Len(content) :
                DropInside(content, k)
                => LET before == RefLex(SubSeq(content, 1, k - 1))
                       after == RefLex(SubSeq(content, k + 1, Len(content)))
                   IN /\ tokens' = before \o after
                      /\ before # <<>> /\ after # <<>>
                      /\ Len(tokens') >= 2
      ]_vars

\* "pr!int" has been tokenized into Text("pr") and Text("int").
C2_Witness ==
    /\ TokDone
    /\ content = <<"p", "r", "!", "i", "n", "t">>
    /\ tokens = <<UserTypeTok(UString("pr")), UserTypeTok(UString("int"))>>

\* Every maximal digit run of the text has a value of at most 2^31 - 1.
DigitRunsFit(s) ==
    \A i \in 1..Len(s) :
        (s[i] \in Digits /\ (i = 1 \/ s[i - 1] \notin Digits))
        => FitsI32(SubSeq(s, i, RunEnd(s, i, Digits)))

\* C3: on a text whose digit runs fit in an i32 the tokenizer never fails,
\* moves its cursor one position at a time from left to right, and returns
\* with the cursor at the length of the text, whatever characters that match
\* no rule the text holds (multi-byte characters included).
C3_NeverFails ==
    [][DigitRunsFit(content)
       => /\ panicked' = "none"
          /\ pc' # "panic"
          /\ tok_index' \in {tok_index, tok_index + 1}
          /\ tok_index' <= Len(content)
          /\ (pc' \in AfterTokenizer => tok_index' = Len(content))
      ]_vars

\* The start of the maximal digit run of s that ends at s[j].
DigitRunStart(s, j) ==
    CHOOSE i \in 1..j :
        /\ \A k \in i..j : s[k] \in Digits
        /\ i = 1 \/ s[i - 1] \notin Digits

\* A byte that is a whole (ASCII) character.
OneByte(c) == c \notin ContinuationBytes \cup LeadBytes

\* C4: when the tokenizer has scanned a digit run to its end (a maximal digit
\* run outside an identifier, ended by the end of the text or by a character
\* that is no digit), it pushes exactly one Integer token holding the
\* decimal value of the run if that value is at most 2^31 - 1, and otherwise
\* the process panics; once panicked nothing more happens: no Parser is
\* built, no statement is parsed and nothing is generated.
C4_IntegerLiteral ==
    [][/\ (/\ pc = "number"
           /\ \/ tok_index = Len(content)
              \/ /\ OneByte(content[tok_index + 1])
                 /\ content[tok_index + 1] \notin Digits)
          => LET run == SubSeq(content, DigitRunStart(content, tok_index),
                               tok_index)
             IN IF FitsI32(run)
                THEN /\ tokens' = Append(tokens,
                                         UserTypeTok(UInt(DecimalValue(run))))
                     /\ tok_index' = tok_index
                     /\ pc' = "Tokenizer.run"
                     /\ panicked' = "none"
                ELSE /\ pc' = "panic"
                     /\ panicked' = "ParseIntError"
                     /\ tokens' = tokens
       /\ pc' = "panic"
          => /\ parser_index' = 0 /\ stmts' = <<>> /\ errors' = <<>>
             /\ gen_index' = 0 /\ src' = "" /\ output' = ""
       /\ pc # "panic"
      ]_vars

\* "2147483648" has ended the process in the tokenizer.
C4_Witness ==
    /\ content = <<"2", "1", "4", "7", "4", "8", "3", "6", "4", "8">>
    /\ pc = "panic"
    /\ panicked = "ParseIntError"
    /\ tokens = <<>> /\ stmts = <<>> /\ output = ""

(***************************************************************************)
(* Reference definitions for the properties of the parser: the grammar     *)
(*   print_stmt := "print" "(" [ literal ("," literal)* ] ")"              *)
(*   let_stmt   := "let" Text "to" literal                                 *)
(* matched against the tokens from a position i (0-based).                 *)
(***************************************************************************)
AfterParser == {"Generator.generate", "exit"}

\* The token at position i, or an end marker.
At(toks, i) == IF i < Len(toks) THEN toks[i + 1] ELSE Tok("EndOfInput")
IsLiteral(t) == t.type = "UserType"
IsText(t) == t.type = "UserType" /\ t.ut.kind = "String"

\* The tokens from i are print ( v1 , ... , vk ) with k literals.
ClosePos(i, k) == IF k = 0 THEN i + 2 ELSE i + 2 * k + 1
PrintShape(toks, i, k) ==
    /\ ClosePos(i, k) < Len(toks)
    /\ At(toks, i) = Tok("Print")
    /\ At(toks, i + 1) = Tok("OpenParen")
    /\ \A j \in 1..k : IsLiteral(At(toks, i + 2 * j))
    /\ \A j \in 1..(k - 1) : At(toks, i + 2 * j + 1) = Tok("Comma")
    /\ At(toks, ClosePos(i, k)) = Tok("CloseParen")
PrintShapeValues(toks, i, k) == [j \in 1..k |-> At(toks, i + 2 * j).ut]

\* C5: a parse_stmt call with print ( v1 , ... , vk ) at the cursor, k >= 0,
\* pushes exactly one Print statement holding v1 .. vk in this order, reports
\* no error and leaves the cursor just past the closing parenthesis.
C5_PrintStatement ==
    [][\A k \in 0..Len(tokens) :
          (/\ pc = "Parser.run"
           /\ PrintShape(tokens, parser_index, k))
          => /\ stmts' = Append(stmts,
                    [type |-> "Print",
                     user_types |-> PrintShapeValues(tokens, parser_index, k)])
             /\ errors' = errors
             /\ parser_index' = ClosePos(parser_index, k) + 1
             /\ pc' = "Parser.run"
      ]_vars

\* print ( 5 , x ) has been parsed into Print([5, x]).
C5_Witness ==
    /\ tokens = <<TPrint, TOpen, T5, TComma, TX, TClose>>
    /\ stmts = <<[type |-> "Print", user_types |-> <<UInt(5), UString("x")>>]>>
    /\ errors = <<>>
    /\ parser_index = 6

\* C6: a Print statement is pushed only by a call whose tokens from the
\* print keyword to the cursor it leaves match the grammar of print_stmt, in
\* which every comma is followed by a literal.
C6_PrintOnlyByGrammar ==
    [][(/\ Len(stmts') = Len(stmts) + 1
        /\ stmts'[Len(stmts')].type = "Print")
       => \E k \in 0..Len(tokens) :
             /\ PrintShape(tokens, parser_index, k)
             /\ parser_index' = ClosePos(parser_index, k) + 1
      ]_vars

\* The tokens from i are let Text to literal.
LetShape(toks, i) ==
    /\ At(toks, i) = Tok("Let")
    /\ IsText(At(toks, i + 1))
    /\ At(toks, i + 2) = Tok("To")
    /\ IsLiteral(At(toks, i + 3))

\* C7: a parse_stmt call with let Text to literal at the cursor i pushes
\* exactly one Let statement whose key refers to the token at i + 1 and whose
\* value refers to the token at i + 3, reports no error and leaves the cursor
\* at i + 4; for "let x to 5" the value resolves to Integer(5).
C7_LetStatement ==
    [][/\ (pc = "Parser.run" /\ LetShape(tokens, parser_index))
          => /\ stmts' = Append(stmts, [type |-> "Let",
                                        key |-> parser_index + 1,
                                        value |-> parser_index + 3])
             /\ errors' = errors
             /\ parser_index' = parser_index + 4
             /\ pc' = "Parser.run"
       /\ (tokens = <<TLet, TX, TTo, T5>> /\ pc' \in AfterParser)
          => /\ Len(stmts') = 1
             /\ stmts'[1].type = "Let"
             /\ tokens[stmts'[1].key + 1] = UserTypeTok(UString("x"))
             /\ tokens[stmts'[1].value + 1] = UserTypeTok(UInt(5))
      ]_vars

\* let x to 5 has been parsed into one Let statement.
C7_Witness ==
    /\ tokens = <<TLet, TX, TTo, T5>>
    /\ stmts = <<[type |-> "Let", key |-> 1, value |-> 3]>>
    /\ errors = <<>>
    /\ parser_index = 4

RECURSIVE MoreArgs(_, _)
\* ("," literal)* from position j: where it ends, or where a literal is
\* missing after a comma.
MoreArgs(toks, j) ==
    IF At(toks, j) = Tok("Comma")
    THEN IF IsLiteral(At(toks, j + 1)) THEN MoreArgs(toks, j + 2)
         ELSE [ok |-> FALSE, at |-> j + 1]
    ELSE [ok |-> TRUE, at |-> j]

\* The match of print_stmt at i: whether it succeeds, the position it ends
\* at or the position of the first token that does not match, and the
\* message for the first missing element.
MatchPrint(toks, i) ==
    IF At(toks, i + 1) # Tok("OpenParen")
    THEN [ok |-> FALSE, at |-> i + 1,
          msg |-> "Expected '(' to start print statement"]
    ELSE LET args == IF IsLiteral(At(toks, i + 2)) THEN MoreArgs(toks, i + 3)
                     ELSE [ok |-> TRUE, at |-> i + 2]
         IN IF args.ok /\ At(toks, args.at) = Tok("CloseParen")
            THEN [ok |-> TRUE, at |-> args.at + 1, msg |-> ""]
            ELSE [ok |-> FALSE, at |-> args.at,
                  msg |-> "Expected ')' to end print statement"]

\* The match of let_stmt at i.
MatchLet(toks, i) ==
    IF ~IsText(At(toks, i + 1))
    THEN [ok |-> FALSE, at |-> i + 1,
          msg |-> "Expected variable name after 'let'"]
    ELSE IF At(toks, i + 2) # Tok("To")
    THEN [ok |-> FALSE, at |-> i + 2,
          msg |-> "Expected 'to' after variable name"]
    ELSE IF ~IsLiteral(At(toks, i + 3))
    THEN [ok |-> FALSE, at |-> i + 3, msg |-> "Expected value after 'to'"]
    ELSE [ok |-> TRUE, at |-> i + 4, msg |-> ""]

StartsStmt(toks, i) == At(toks, i) \in {Tok("Print"), Tok("Let")}
MatchStmt(toks, i) ==
    IF At(toks, i) = Tok("Print") THEN MatchPrint(toks, i)
    ELSE MatchLet(toks, i)

\* C8: a parse_stmt call at a print or let keyword whose statement does not
\* match the grammar reports exactly the message of the first missing
\* element and leaves the statements unchanged.
C8_MalformedReported ==
    [][(/\ pc = "Parser.run"
        /\ StartsStmt(tokens, parser_index)
        /\ ~MatchStmt(tokens, parser_index).ok)
       => /\ errors' = Append(errors, MatchStmt(tokens, parser_index).msg)
          /\ stmts' = stmts
      ]_vars

\* Parser::run keeps taking turns of its loop until it returns, and main then
\* runs the generator to its end: the process is sequential and never waits.
FairSpecParser == SpecParser /\ WF_vars(ParserNext)

\* C9: the parser cursor never decreases, every parse_stmt call advances it
\* by at least one token, and Parser::run returns, with the cursor equal to
\* the number of tokens.
C9_CursorAdvances ==
    /\ [][/\ parser_index' >= parser_index
          /\ (pc = "Parser.run" /\ pc' = "Parser.run")
             => parser_index' > parser_index
         ]_vars
    /\ <>(pc \in AfterParser)
    /\ [](pc \in AfterParser => parser_index = Len(tokens))

\* Parser::run has returned after a failed attempt, a skipped token and a
\* statement.
C9_Witness ==
    /\ pc \in AfterParser
    /\ parser_index = Len(tokens)
    /\ tokens = <<TPrint, TPrint, TOpen, TClose, TLet, TX, TTo, TX>>
    /\ Len(errors) = 1
    /\ Len(stmts) = 2

\* C10: a call that reports an error leaves the statements unchanged and the
\* cursor at the first token that did not match, which it has not consumed;
\* the loop goes on from there, so a print or let at that position starts the
\* next attempt: let x print ( ) reports one error and yields Print([]), and
\* print ( 5 , let x to 5 reports one error and yields the Let statement.
C10_NoRollback ==
    [][/\ errors' # errors
          => /\ pc = "Parser.run" /\ pc' = "Parser.run"
             /\ StartsStmt(tokens, parser_index)
             /\ ~MatchStmt(tokens, parser_index).ok
             /\ parser_index' = MatchStmt(tokens, parser_index).at
             /\ parser_index' > parser_index
             /\ stmts' = stmts
             /\ Len(errors') = Len(errors) + 1
       /\ (tokens = <<TLet, TX, TPrint, TOpen, TClose>> /\ pc' \in AfterParser)
          => /\ errors' = <<"Expected 'to' after variable name">>
             /\ stmts' = <<[type |-> "Print", user_types |-> <<>>]>>
       /\ (/\ tokens = <<TPrint, TOpen, T5, TComma, TLet, TX, TTo, T5>>
           /\ pc' \in AfterParser)
          => /\ errors' = <<"Expected ')' to end print statement">>
             /\ stmts' = <<[type |-> "Let", key |-> 5, value |-> 7]>>
      ]_vars

\* let x print ( ) has been parsed: one error, then Print([]).
C10_Witness ==
    /\ tokens = <<TLet, TX, TPrint, TOpen, TClose>>
    /\ pc \in AfterParser
    /\ errors = <<"Expected 'to' after variable name">>
    /\ stmts = <<[type |-> "Print", user_types |-> <<>>]>>

\* C11: a parse_stmt call that finds at the cursor a token that is neither the
\* print nor the let keyword (a literal, a symbol, to, a comma) moves the
\* cursor on by exactly one and leaves the statements and the reported errors
\* as they were.
C11_SkipOneToken ==
    [][(/\ pc = "Parser.run"
        /\ parser_index < Len(tokens)
        /\ At(tokens, parser_index) \notin {[type |-> "Print"], [type |-> "Let"]})
       => /\ parser_index' = parser_index + 1
          /\ stmts' = stmts
          /\ errors' = errors
          /\ pc' = "Parser.run"
          /\ tokens' = tokens
      ]_vars

\* to , x: the three tokens have been skipped one by one.
C11_Witness ==
    /\ pc = "Parser.run"
    /\ tokens = <<TTo, TComma, TX>>
    /\ parser_index = 3
    /\ stmts = <<>>
    /\ errors = <<>>

\* The positions before the cursor i that hold a print or a let keyword.
KeywordsBefore(toks, i) ==
    {k \in 1..i : k <= Len(toks)
                  /\ toks[k] \in {[type |-> "Print"], [type |-> "Let"]}}

\* C12: at every point of parsing there are at most as many statements as
\* there are print and let keywords at positions before the cursor, and once
\* Parser::run has returned at most as many as there are print and let
\* keywords in the whole token sequence.
C12_StmtsBoundedByKeywords ==
    /\ Len(stmts) <= Cardinality(KeywordsBefore(tokens, parser_index))
    /\ pc \in AfterParser
       => Len(stmts) <= Cardinality(KeywordsBefore(tokens, Len(tokens)))

\* print print ( ) let x to x: three keywords before the cursor, two
\* statements.
C12_Witness ==
    /\ tokens = <<TPrint, TPrint, TOpen, TClose, TLet, TX, TTo, TX>>
    /\ parser_index = 8
    /\ Len(stmts) = 2
    /\ Cardinality(KeywordsBefore(tokens, parser_index)) = 3

\* C14: however many errors parsing reports, Parser::run returns Ok and main
\* starts the generator over the statements pushed so far: a step that
\* reports an error keeps every statement pushed before it, the tokens are
\* never changed, the return of Parser::run always enters generate, generate
\* takes the statements one by one, and every run ends with all of them
\* generated and the result printed.
C14_ErrorsDoNotStopGeneration ==
    /\ [][/\ tokens' = tokens
          /\ Len(stmts') >= Len(stmts)
          /\ SubSeq(stmts', 1, Len(stmts)) = stmts
          /\ (pc = "Parser.run" /\ pc' # "Parser.run")
             => /\ pc' = "Generator.generate"
                /\ gen_index' = 0
                /\ stmts' = stmts
                /\ errors' = errors
          /\ pc \in AfterParser
             => /\ stmts' = stmts
                /\ errors' = errors
                /\ pc' \in AfterParser
          /\ gen_index' # gen_index
             => /\ gen_index < Len(stmts')
                /\ gen_index' = gen_index + 1
         ]_vars
    /\ <>(pc = "exit")
    /\ [](pc = "exit" => gen_index = Len(stmts) /\ Len(output) > 0)

\* print ( 5 , let x to 5: one error was reported, and the Let statement
\* that followed it has been generated.
C14_Witness ==
    /\ pc = "exit"
    /\ tokens = <<TPrint, TOpen, T5, TComma, TLet, TX, TTo, T5>>
    /\ Len(errors) = 1
    /\ Len(stmts) = 1
    /\ gen_index = 1
    /\ output = "\nint main() {\nint x=5;\n}"

\* The statements among the first n that need the streaming-output include
\* (Print) and the string include (Let with a Text value).
PrintsIn(sts, n) == {k \in 1..n : sts[k].type = "Print"}
TextLetsIn(sts, toks, n) ==
    {k \in 1..n : sts[k].type = "Let" /\ IsText(At(toks, sts[k].value))}
First(S) == CHOOSE k \in S : \A j \in S : k <= j

\* The include section after the first n statements: each directive once, in
\* the order in which the statements first need them.
ExpectedIncludes(sts, toks, n) ==
    LET P == PrintsIn(sts, n)
        L == TextLetsIn(sts, toks, n)
    IN IF P = {} /\ L = {} THEN ""
       ELSE IF L = {} THEN "#include <iostream>\n"
       ELSE IF P = {} THEN "#include <string>\n"
       ELSE IF First(P) < First(L)
            THEN "#include <iostream>\n#include <string>\n"
            ELSE "#include <string>\n#include <iostream>\n"

\* C15: while generate runs and when it has returned, the include section
\* holds each directive at most once: <iostream> exactly when a Print
\* statement has been generated, <string> exactly when a Let statement with a
\* Text value has been generated, in the order in which they were first
\* needed; the printed result starts with that section.
C15_IncludesOnceInOrder ==
    /\ pc \in AfterParser
       => Join(includes) = ExpectedIncludes(stmts, tokens, gen_index)
    /\ pc = "exit"
       => output = ExpectedIncludes(stmts, tokens, Len(stmts)) \o "\n" \o src

\* Three Print statements have been generated and <iostream> is included
\* once.
C15_Witness ==
    /\ pc = "exit"
    /\ Cardinality(PrintsIn(stmts, Len(stmts))) = 3
    /\ Join(includes) = "#include <iostream>\n"

RECURSIVE DecimalText(_)
\* The decimal text of a number that is not negative.
DecimalText(n) ==
    LET d == <<"0", "1", "2", "3", "4", "5", "6", "7", "8", "9">>[(n % 10) + 1]
    IN IF n \div 10 = 0 THEN d ELSE DecimalText(n \div 10) \o d

\* The literal text of a value: the characters of a Text, the decimal digits
\* of an Integer, without quotes.
LiteralText(u) == IF u.kind = "String" THEN u.val ELSE DecimalText(u.val)

RECURSIVE Chained(_)
\* The values in order, each handed to the stream by "<<" with nothing else
\* between them.
Chained(values) ==
    IF values = <<>> THEN ""
    ELSE LiteralText(values[1]) \o "<<" \o Chained(SubSeq(values, 2, Len(values)))

\* The line of a Print statement: the values chained onto std::cout, then
\* the line-end directive.
PrintLine(values) == "std::cout<<" \o Chained(values) \o "std::endl;\n"

\* C16: for a Print statement generate appends exactly one line to the body:
\* one output expression on std::cout that chains the literal text of every
\* value in order by "<<", with no separator text between the values, and
\* ends with std::endl; the program [Print([3, hi])] is printed with
\* <iostream> as its only include and the body line std::cout<<3<<hi<<std::endl;.
C16_PrintLine ==
    [][/\ (/\ pc = "Generator.generate"
           /\ gen_index < Len(stmts)
           /\ stmts[gen_index + 1].type = "Print")
          => /\ src' = src \o PrintLine(stmts[gen_index + 1].user_types)
             /\ gen_index' = gen_index + 1
       /\ (/\ stmts = <<[type |-> "Print",
                        user_types |-> <<[kind |-> "Int", val |-> 3],
                                         [kind |-> "String", val |-> "hi"]>>]>>
           /\ pc' = "exit")
          => output' = "#include <iostream>\n\nint main() {\n"
                           \o "std::cout<<3<<hi<<std::endl;\n}"
      ]_vars

\* print ( 3 , hi ) has been generated and printed.
C16_Witness ==
    /\ pc = "exit"
    /\ tokens = <<TPrint, TOpen, T3, TComma, THi, TClose>>
    /\ Len(stmts) = 1
    /\ output = "#include <iostream>\n\nint main() {\nstd::cout<<3<<hi<<std::endl;\n}"

\* C17: for a Let statement whose key is a Text, a Text value makes generate
\* include <string> (once) and append the line std::string <key>=<value>;
\* with the text of the value as it is, without quotes; an Integer value
\* makes it append the line int <key>=<value>; and leaves the include section
\* as it is.  let x to hi let hi to 120 is printed as the two declarations
\* under the one include <string>.
C17_LetLine ==
    [][/\ (/\ pc = "Generator.generate"
           /\ gen_index < Len(stmts)
           /\ stmts[gen_index + 1].type = "Let"
           /\ IsText(At(tokens, stmts[gen_index + 1].key)))
          => LET key == At(tokens, stmts[gen_index + 1].key).ut.val
                 value == At(tokens, stmts[gen_index + 1].value)
             IN /\ gen_index' = gen_index + 1
                /\ IsText(value)
                   => /\ src' = src \o "std::string " \o key \o "="
                                    \o value.ut.val \o ";\n"
                      /\ Join(includes') =
                           Join(includes)
                             \o (IF TextLetsIn(stmts, tokens, gen_index) = {}
                                 THEN "#include <string>\n" ELSE "")
                /\ (IsLiteral(value) /\ value.ut.kind = "Int")
                   => /\ src' = src \o "int " \o key \o "="
                                    \o DecimalText(value.ut.val) \o ";\n"
                      /\ includes' = includes
       /\ (tokens = <<TLet, TX, TTo, THi, TLet, THi, TTo, T120>> /\ pc' = "exit")
          => output' = "#include <string>\n\nint main() {\n"
                           \o "std::string x=hi;\nint hi=120;\n}"
      ]_vars

\* let x to hi let hi to 120 has been generated and printed.
C17_Witness ==
    /\ pc = "exit"
    /\ tokens = <<TLet, TX, TTo, THi, TLet, THi, TTo, T120>>
    /\ gen_index = 2
    /\ output = "#include <string>\n\nint main() {\nstd::string x=hi;\nint hi=120;\n}"

\* The line of a Let statement with a Text key and a literal value.
LetLine(key, value) ==
    IF value.kind = "String"
    THEN "std::string " \o key.val \o "=" \o value.val \o ";\n"
    ELSE "int " \o key.val \o "=" \o DecimalText(value.val) \o ";\n"

\* The one line of a statement.
StmtLine(s, toks) ==
    IF s.type = "Print" THEN PrintLine(s.user_types)
    ELSE LetLine(At(toks, s.key).ut, At(toks, s.value).ut)

RECURSIVE Body(_, _, _)
\* The lines of the statements from the k-th on, in their order.
Body(sts, toks, k) ==
    IF k > Len(sts) THEN ""
    ELSE StmtLine(sts[k], toks) \o Body(sts, toks, k + 1)

\* C18: for every statement sequence the parser produces generate returns,
\* and the printed result is the include directives, one newline, and the
\* single function int main() { ... } whose body holds exactly one line for
\* each statement, in the order of the statements: no statement's line is
\* missing, repeated or moved.
C18_OutputShape ==
    /\ <>(pc = "exit")
    /\ [](pc = "exit"
          => output = ExpectedIncludes(stmts, tokens, Len(stmts))
                         \o "\n" \o "int main() {\n"
                         \o Body(stmts, tokens, 1) \o "}")
    /\ [](pc \in AfterParser => gen_index <= Len(stmts))

\* print ( 120 ) let hi to x print ( ): three statements, three lines.
C18_Witness ==
    /\ pc = "exit"
    /\ tokens = <<TPrint, TOpen, T120, TClose, TLet, THi, TTo, TX,
                  TPrint, TOpen, TClose>>
    /\ Len(stmts) = 3
    /\ output = "#include <iostream>\n#include <string>\n\nint main() {\n"
                    \o "std::cout<<120<<std::endl;\nstd::string hi=x;\n"
                    \o "std::cout<<std::endl;\n}"

\* C19: in every state every Let statement refers, as its key, to a token
\* inside the token sequence that is a Text literal and, as its value, to a
\* token inside the token sequence that is a literal; so generate never takes
\* one of its branches that emit nothing for a Let: the body it has built
\* holds the line of every statement generated so far.
C19_LetRefsWellTyped ==
    /\ \A k \in 1..Len(stmts) :
          stmts[k].type = "Let"
          => /\ stmts[k].key \in 0..(Len(tokens) - 1)
             /\ stmts[k].value \in 0..(Len(tokens) - 1)
             /\ tokens[stmts[k].key + 1].type = "UserType"
             /\ tokens[stmts[k].key + 1].ut.kind = "String"
             /\ tokens[stmts[k].value + 1].type = "UserType"
             /\ tokens[stmts[k].value + 1].ut.kind \in {"String", "Int"}
    /\ pc = "Generator.generate"
       => src = "int main() {\n"
                    \o Body(SubSeq(stmts, 1, gen_index), tokens, 1)

\* let x to 5 let x to x has been parsed and the first Let generated.
C19_Witness ==
    /\ pc = "Generator.generate"
    /\ stmts = <<[type |-> "Let", key |-> 1, value |-> 3],
                 [type |-> "Let", key |-> 5, value |-> 7]>>
    /\ gen_index = 1
    /\ src = "int main() {\nint x=5;\n"

\* C20: the cursor of the parser never passes the end of the token sequence;
\* parse_stmt is entered only with a token at the cursor; every position at
\* which a call reads a token, and every reference a pushed Let keeps, is
\* less than the number of tokens, also when the tokens end in the middle of
\* a print or let statement.
C20_CursorInRange ==
    /\ [](parser_index \in 0..Len(tokens))
    /\ [][(parser_index' # parser_index \/ stmts' # stmts \/ errors' # errors)
          => /\ pc = "Parser.run"
             /\ parser_index < Len(tokens)
             /\ \A j \in ParseStmtReads(tokens, parser_index) :
                   j \in 0..(Len(tokens) - 1)
             /\ \A k \in (Len(stmts) + 1)..Len(stmts') :
                   stmts'[k].type = "Let"
                   => /\ stmts'[k].key < Len(tokens)
                      /\ stmts'[k].value < Len(tokens)
         ]_vars

\* print ( 5 , ends in the middle of the statement: the call has read all
\* four tokens and stopped with the cursor at the end.
C20_Witness ==
    /\ tokens = <<TPrint, TOpen, T5, TComma>>
    /\ ParseStmtReads(tokens, 0) = {0, 1, 2, 3}
    /\ parser_index = 4
    /\ Len(errors) = 1
    /\ stmts = <<>>

====
